---- MODULE Spec2Model ----
(***************************************************************************)
(* Event registration, cancellation and check-in of usv-events-be.         *)
(*                                                                         *)
(* EventsService (src/src/modules/events/events.service.ts) runs every     *)
(* request as a chain of separately awaited SQL statements on the shared   *)
(* database, with no transaction around them.  Each awaited statement is   *)
(* one atomic step here; the JavaScript between two awaits runs with the   *)
(* statement that precedes it.  Connections handle requests concurrently,  *)
(* so the steps of different requests interleave freely.                   *)
(***************************************************************************)
EXTENDS Integers, Sequences, FiniteSets, TLC

\* ------------------------------------------------------------------ bounds
MaxProcs == 2       \* connections serving requests at the same time
MaxRequests == 4    \* requests served in one behaviour
MaxTime == 2        \* last value of the millisecond clock
MaxRandom == 2      \* distinct values of the random ticket suffix

\* ---------------------------------------------------------------- universe
Procs == 1..MaxProcs
EventIds == {"e1"}
UserIds == {"A", "B"}
StaffIds == {"org"}
AdminIds == {"admin"}
Times == 1..MaxTime
Randoms == 1..MaxRandom

NULL == 0                 \* SQL NULL of a nullable integer/timestamp column
NoUser == "null"          \* SQL NULL of a nullable user reference
NoReason == "null"        \* SQL NULL of rejection_reason / no reason in the request
NoTicket == <<>>          \* ticket number / QR code absent from a request
BogusTicket == <<0, 0>>   \* a ticket number no registration carries

\* values of the registration_status and event_status enums
RegistrationStatus == {"pending", "confirmed", "cancelled", "attended"}
EventStatus == {"draft", "pending", "approved", "rejected", "cancelled", "completed"}

\* generateTicketNumber: `TKT-${Date.now()}-${random}`
generateTicketNumber(ts, rnd) == <<ts, rnd>>

\* generateQrCodeContent: JSON of {eventId, ticketNumber, timestamp: Date.now()}
generateQrCodeContent(eventId, ticketNumber, ts) == <<eventId, ticketNumber, ts>>

VARIABLES
  events,              \* events table: id -> row
  eventRegistrations,  \* event_registrations table: sequence of rows, id = index
  now,                 \* Date.now()
  pc,                  \* per connection: the statement its request runs next
  req,                 \* per connection: arguments of the request in flight
  local,               \* per connection: rows the request has read or written
  log,                 \* responses sent so far, in order of completion
  notifications        \* notifications table: sequence of rows

vars == <<events, eventRegistrations, now, pc, req, local, log, notifications>>

\* history of a request: what held when it arrived (pastDeadline, pastEnd), and
\* owner, the event of the row that carries the identifier a check-in presents
\* ("absent": none presented, "none": no row carries it)
NoReq == [op |-> "none", eventId |-> "none", userId |-> "none",
          ticketNumber |-> NoTicket, qrCode |-> NoTicket, seq |-> 0,
          pastDeadline |-> FALSE, pastEnd |-> FALSE, owner |-> "absent",
          status |-> "none", rejectionReason |-> NoReason,
          maxParticipants |-> NULL]
NoLocal == [regId |-> 0, ticketNumber |-> NoTicket]

RegIds == 1..Len(eventRegistrations)

\* ------------------------------------------------------------ initial state
\* createEvent (lines 19-39): a draft; the columns left out take their defaults
NewEvent(maxParticipants, registrationDeadline, endDate) ==
  [status |-> "draft", maxParticipants |-> maxParticipants,
   currentParticipants |-> 0, registrationDeadline |-> registrationDeadline,
   endDate |-> endDate, approvedAt |-> NULL, approvedBy |-> NoUser,
   rejectionReason |-> NoReason]

\* the row after submitForApproval and reviewEvent(approved) by the admin
ApprovedEvent(maxParticipants, registrationDeadline, endDate) ==
  [NewEvent(maxParticipants, registrationDeadline, endDate) EXCEPT
     !.status = "approved", !.approvedAt = 1, !.approvedBy = "admin"]

\* events that were created, submitted and approved, nobody registered yet;
\* they end after the last clock value
Init ==
  /\ events = [e \in EventIds |-> ApprovedEvent(1, NULL, MaxTime + 1)]
  /\ eventRegistrations = <<>>
  /\ now = 1
  /\ pc = [p \in Procs |-> "idle"]
  /\ req = [p \in Procs |-> NoReq]
  /\ local = [p \in Procs |-> NoLocal]
  /\ log = <<>>
  /\ notifications = <<>>

\* ------------------------------------------------------------------ helpers
InFlight == Cardinality({p \in Procs : pc[p] # "idle"})
CanStart(p) == pc[p] = "idle" /\ Len(log) + InFlight < MaxRequests

\* the record of an answered request r
Entry(r, result, regId, ticket) ==
  [op |-> r.op, eventId |-> r.eventId, userId |-> r.userId, result |-> result,
   regId |-> regId, ticketNumber |-> ticket, seq |-> r.seq,
   pastDeadline |-> r.pastDeadline, pastEnd |-> r.pastEnd, owner |-> r.owner]

\* the controller's response: success(c, ...) or error(c, message, 400)
Respond(p, result, regId, ticket) ==
  /\ log' = Append(log, Entry(req[p], result, regId, ticket))
  /\ pc' = [pc EXCEPT ![p] = "idle"]
  /\ req' = [req EXCEPT ![p] = NoReq]
  /\ local' = [local EXCEPT ![p] = NoLocal]

\* what held when a registration request arrived at time t
ArrivedPastDeadline(event, t) ==
  event.registrationDeadline # NULL /\ t > event.registrationDeadline
ArrivedPastEnd(event, t) == t >= event.endDate

\* the event of the row that carries the identifier a scanner presents
Owner(ticketNumber, qrCode) ==
  LET carriers == {i \in RegIds :
                     IF ticketNumber # NoTicket
                     THEN eventRegistrations[i].ticketNumber = ticketNumber
                     ELSE eventRegistrations[i].qrCode = qrCode}
  IN  IF ticketNumber = NoTicket /\ qrCode = NoTicket THEN "absent"
      ELSE IF carriers = {} THEN "none"
      ELSE eventRegistrations[CHOOSE i \in carriers : TRUE].eventId

\* ------------------------------------------------------------------- clock
Tick ==
  /\ now < MaxTime
  /\ now' = now + 1
  /\ UNCHANGED <<events, eventRegistrations, pc, req, local, log, notifications>>

\* --------------------------------------------------------- registerForEvent
\* events.service.ts:313  event.status !== 'approved'
NotOpen(event) == event.status # "approved"

\* the deadline comparison turned round
DeadlinePassedReversed(event, t) ==
  event.registrationDeadline # NULL /\ t < event.registrationDeadline

\* events.service.ts:317  registrationDeadline && new Date() > registrationDeadline
DeadlinePassed(event, t) ==
  event.registrationDeadline # NULL /\ t > event.registrationDeadline

\* an unset maxParticipants read as a limit of 0
IsFullNullAsZero(event) == event.currentParticipants >= event.maxParticipants

\* events.service.ts:321  maxParticipants && currentParticipants >= maxParticipants
IsFull(event) ==
  event.maxParticipants # NULL /\ event.currentParticipants >= event.maxParticipants

\* events.service.ts:326  rows of the (event, user) pair, whatever their status
RegistrationsOf(eventId, userId) ==
  {i \in RegIds : /\ eventRegistrations[i].eventId = eventId
                  /\ eventRegistrations[i].userId = userId}

\* uniqueness kept only among the rows that are not cancelled
UniqueViolationAmongActive(ticketNumber, qrCode) ==
  \E i \in RegIds : /\ eventRegistrations[i].status # "cancelled"
                    /\ \/ eventRegistrations[i].ticketNumber = ticketNumber
                       \/ eventRegistrations[i].qrCode = qrCode

\* the UNIQUE constraints of event_registrations: ticket_number and qr_code
UniqueViolation(ticketNumber, qrCode) ==
  \E i \in RegIds : \/ eventRegistrations[i].ticketNumber = ticketNumber
                    \/ eventRegistrations[i].qrCode = qrCode

\* the insert without its status key: the column takes its default, 'pending'
NewRegistrationDefaultStatus(eventId, userId, ticketNumber, qrCode) ==
  [eventId |-> eventId, userId |-> userId, status |-> "pending",
   ticketNumber |-> ticketNumber, qrCode |-> qrCode,
   checkedInAt |-> NULL, checkedInBy |-> NoUser]

\* the row registerForEvent inserts; the columns it leaves out take their defaults
NewRegistration(eventId, userId, ticketNumber, qrCode) ==
  [eventId |-> eventId, userId |-> userId, status |-> "confirmed",
   ticketNumber |-> ticketNumber, qrCode |-> qrCode,
   checkedInAt |-> NULL, checkedInBy |-> NoUser]

\* POST /events/:id/register; lines 307-323: read the event, check that it is open
RegisterGetEvent(p, eventId, userId) ==
  /\ CanStart(p)
  /\ LET event == events[eventId]
         r == [NoReq EXCEPT !.op = "register", !.eventId = eventId,
                            !.userId = userId, !.seq = Len(log),
                            !.pastDeadline = ArrivedPastDeadline(event, now),
                            !.pastEnd = ArrivedPastEnd(event, now)]
         fail(msg) ==
           /\ log' = Append(log, Entry(r, msg, 0, NoTicket))
           /\ UNCHANGED <<pc, req, local>>
     IN  IF NotOpen(event) THEN fail("Event is not open for registration")
         ELSE IF DeadlinePassed(event, now) THEN fail("Registration deadline has passed")
         ELSE IF IsFull(event) THEN fail("Event is full")
         ELSE /\ pc' = [pc EXCEPT ![p] = "reg_findExisting"]
              /\ req' = [req EXCEPT ![p] = r]
              /\ UNCHANGED <<local, log>>
  /\ UNCHANGED <<events, eventRegistrations, now, notifications>>

\* lines 326-335: look for a registration of this user for this event
RegisterFindExisting(p) ==
  /\ pc[p] = "reg_findExisting"
  /\ IF RegistrationsOf(req[p].eventId, req[p].userId) # {}
     THEN Respond(p, "You are already registered for this event", 0, NoTicket)
     ELSE /\ pc' = [pc EXCEPT ![p] = "reg_insert"]
          /\ UNCHANGED <<req, local, log>>
  /\ UNCHANGED <<events, eventRegistrations, now, notifications>>

\* lines 338-351: issue ticket and QR code, insert the row
RegisterInsert(p, rnd) ==
  /\ pc[p] = "reg_insert"
  /\ LET ticketNumber == generateTicketNumber(now, rnd)
         qrCode == generateQrCodeContent(req[p].eventId, ticketNumber, now)
     IN  IF UniqueViolation(ticketNumber, qrCode)
         THEN /\ Respond(p, "duplicate key", 0, NoTicket)
              /\ UNCHANGED eventRegistrations
         ELSE /\ eventRegistrations' = Append(eventRegistrations,
                   NewRegistration(req[p].eventId, req[p].userId, ticketNumber, qrCode))
              /\ pc' = [pc EXCEPT ![p] = "reg_increment"]
              /\ local' = [local EXCEPT ![p] =
                   [regId |-> Len(eventRegistrations) + 1, ticketNumber |-> ticketNumber]]
              /\ UNCHANGED <<req, log>>
  /\ UNCHANGED <<events, now, notifications>>

\* lines 354-362: currentParticipants = currentParticipants + 1, return the row
RegisterIncrement(p) ==
  /\ pc[p] = "reg_increment"
  /\ events' = [events EXCEPT ![req[p].eventId].currentParticipants = @ + 1]
  /\ Respond(p, "ok", local[p].regId, local[p].ticketNumber)
  /\ UNCHANGED <<eventRegistrations, now, notifications>>

\* ------------------------------------------------------- cancelRegistration
\* lines 384-386: only a row that is already cancelled is refused
AlreadyCancelled(registration) == registration.status = "cancelled"

\* DELETE /events/:id/register; lines 369-386: select ... limit 1, check status.
\* Without ORDER BY the statement returns any one of the matching rows.
CancelSelect(p, eventId, userId) ==
  /\ CanStart(p)
  /\ LET r == [NoReq EXCEPT !.op = "cancel", !.eventId = eventId,
                            !.userId = userId, !.seq = Len(log)]
         fail(msg) ==
           /\ log' = Append(log, Entry(r, msg, 0, NoTicket))
           /\ UNCHANGED <<pc, req, local>>
     IN  IF RegistrationsOf(eventId, userId) = {}
         THEN fail("Registration not found")
         ELSE \E i \in RegistrationsOf(eventId, userId) :
                IF AlreadyCancelled(eventRegistrations[i])
                THEN fail("Registration is already cancelled")
                ELSE /\ pc' = [pc EXCEPT ![p] = "cancel_update"]
                     /\ req' = [req EXCEPT ![p] = r]
                     /\ local' = [local EXCEPT ![p] =
                          [regId |-> i, ticketNumber |-> eventRegistrations[i].ticketNumber]]
                     /\ UNCHANGED log
  /\ UNCHANGED <<events, eventRegistrations, now, notifications>>

\* lines 388-394: update ... set status = 'cancelled' where id = registration.id
CancelUpdate(p) ==
  /\ pc[p] = "cancel_update"
  /\ eventRegistrations' =
       [eventRegistrations EXCEPT ![local[p].regId].status = "cancelled"]
  /\ pc' = [pc EXCEPT ![p] = "cancel_decrement"]
  /\ UNCHANGED <<events, now, req, local, log, notifications>>

\* lines 397-404: currentParticipants = currentParticipants - 1
CancelDecrement(p) ==
  /\ pc[p] = "cancel_decrement"
  /\ events' = [events EXCEPT ![req[p].eventId].currentParticipants = @ - 1]
  /\ Respond(p, "ok", local[p].regId, local[p].ticketNumber)
  /\ UNCHANGED <<eventRegistrations, now, notifications>>

\* ------------------------------------------------------- checkInParticipant
\* the schema without its .refine
CheckInSchemaUnrefined(ticketNumber, qrCode) == TRUE

\* checkInSchema (.refine): a ticket number or a QR code must be present
CheckInSchemaValid(ticketNumber, qrCode) ==
  ticketNumber # NoTicket \/ qrCode # NoTicket

\* the lookup by ticket number or QR code alone
CheckInMatchesUnscoped(eventId, ticketNumber, qrCode) ==
  {i \in RegIds :
     IF ticketNumber # NoTicket
     THEN eventRegistrations[i].ticketNumber = ticketNumber
     ELSE qrCode # NoTicket => eventRegistrations[i].qrCode = qrCode}

\* lines 466-472: the event, and the ticket number if given, else the QR code
CheckInMatches(eventId, ticketNumber, qrCode) ==
  {i \in RegIds :
     /\ eventRegistrations[i].eventId = eventId
     /\ IF ticketNumber # NoTicket
        THEN eventRegistrations[i].ticketNumber = ticketNumber
        ELSE qrCode # NoTicket => eventRegistrations[i].qrCode = qrCode}

\* values a scanner can present: those of stored rows, one of no row, or nothing
TicketInputs ==
  {NoTicket, BogusTicket} \cup {eventRegistrations[i].ticketNumber : i \in RegIds}
QrInputs == {NoTicket} \cup {eventRegistrations[i].qrCode : i \in RegIds}

\* POST /events/:id/check-in; controller lines 1008-1023, service lines 466-490
CheckInSelect(p, eventId, checkInBy, ticketNumber, qrCode) ==
  /\ CanStart(p)
  /\ LET r == [NoReq EXCEPT !.op = "checkIn", !.eventId = eventId,
                            !.userId = checkInBy, !.ticketNumber = ticketNumber,
                            !.qrCode = qrCode, !.seq = Len(log),
                            !.owner = Owner(ticketNumber, qrCode)]
         fail(msg) ==
           /\ log' = Append(log, Entry(r, msg, 0, NoTicket))
           /\ UNCHANGED <<pc, req, local>>
     IN  IF ~CheckInSchemaValid(ticketNumber, qrCode)
         THEN fail("Either ticket number or QR code is required")
         ELSE IF CheckInMatches(eventId, ticketNumber, qrCode) = {}
         THEN fail("Registration not found")
         ELSE \E i \in CheckInMatches(eventId, ticketNumber, qrCode) :
                IF eventRegistrations[i].status # "confirmed"
                THEN fail("Registration is not confirmed")
                ELSE IF eventRegistrations[i].checkedInAt # NULL
                THEN fail("Participant already checked in")
                ELSE /\ pc' = [pc EXCEPT ![p] = "checkin_update"]
                     /\ req' = [req EXCEPT ![p] = r]
                     /\ local' = [local EXCEPT ![p] =
                          [regId |-> i, ticketNumber |-> eventRegistrations[i].ticketNumber]]
                     /\ UNCHANGED log
  /\ UNCHANGED <<events, eventRegistrations, now, notifications>>

\* the attended write with WHERE event_id = ... in place of WHERE id = ...
CheckInUpdateByEvent(p) ==
  /\ pc[p] = "checkin_update"
  /\ eventRegistrations' =
       [i \in RegIds |->
          IF eventRegistrations[i].eventId = req[p].eventId
          THEN [eventRegistrations[i] EXCEPT !.status = "attended",
                                             !.checkedInAt = now,
                                             !.checkedInBy = req[p].userId]
          ELSE eventRegistrations[i]]
  /\ Respond(p, "ok", local[p].regId, local[p].ticketNumber)
  /\ UNCHANGED <<events, now, notifications>>

\* lines 492-504: update ... set status = 'attended', ... where id = registration.id
CheckInUpdate(p) ==
  /\ pc[p] = "checkin_update"
  /\ eventRegistrations' =
       [eventRegistrations EXCEPT ![local[p].regId] =
          [@ EXCEPT !.status = "attended", !.checkedInAt = now,
                    !.checkedInBy = req[p].userId]]
  /\ Respond(p, "ok", local[p].regId, local[p].ticketNumber)
  /\ UNCHANGED <<events, now, notifications>>

\* ------------------------------------------------------------ specification
Next ==
  \/ Tick
  \/ \E p \in Procs, e \in EventIds, u \in UserIds : RegisterGetEvent(p, e, u)
  \/ \E p \in Procs : RegisterFindExisting(p)
  \/ \E p \in Procs, rnd \in Randoms : RegisterInsert(p, rnd)
  \/ \E p \in Procs : RegisterIncrement(p)
  \/ \E p \in Procs, e \in EventIds, u \in UserIds : CancelSelect(p, e, u)
  \/ \E p \in Procs : CancelUpdate(p)
  \/ \E p \in Procs : CancelDecrement(p)
  \/ \E p \in Procs, e \in EventIds, s \in StaffIds :
       \E t \in TicketInputs, q \in QrInputs : CheckInSelect(p, e, s, t, q)
  \/ \E p \in Procs : CheckInUpdate(p)

Spec == Init /\ [][Next]_vars

\* A request that stops between two statements: the process is killed, the
\* client disconnects or the next statement is rejected (controller catch,
\* lines 949-952).  What it has written stays; nothing is rolled back.
Abort(p) ==
  /\ pc[p] # "idle"
  /\ Respond(p, "aborted", local[p].regId, local[p].ticketNumber)
  /\ UNCHANGED <<events, eventRegistrations, now, notifications>>

\* registrations and cancellations, any of which may stop half-way
NextCrash ==
  \/ \E p \in Procs, e \in EventIds, u \in UserIds : RegisterGetEvent(p, e, u)
  \/ \E p \in Procs : RegisterFindExisting(p)
  \/ \E p \in Procs, rnd \in Randoms : RegisterInsert(p, rnd)
  \/ \E p \in Procs : RegisterIncrement(p)
  \/ \E p \in Procs, e \in EventIds, u \in UserIds : CancelSelect(p, e, u)
  \/ \E p \in Procs : CancelUpdate(p)
  \/ \E p \in Procs : CancelDecrement(p)
  \/ \E p \in Procs : Abort(p)

SpecCrash == Init /\ [][NextCrash]_vars

\* ------------------------------------------------- submit and review of events
\* POST /events/:id/submit, controller lines 877-889: read the event, it must be
\* a draft
SubmitGetEvent(p, eventId) ==
  /\ CanStart(p)
  /\ LET r == [NoReq EXCEPT !.op = "submit", !.eventId = eventId,
                            !.userId = "org", !.seq = Len(log)]
     IN  IF events[eventId].status # "draft"
         THEN /\ log' = Append(log, Entry(r,
                    "Only draft events can be submitted for approval", 0, NoTicket))
              /\ UNCHANGED <<pc, req>>
         ELSE /\ pc' = [pc EXCEPT ![p] = "submit_update"]
              /\ req' = [req EXCEPT ![p] = r]
              /\ UNCHANGED log
  /\ UNCHANGED <<events, eventRegistrations, now, local, notifications>>

\* submitForApproval, lines 132-144: update ... set status = 'pending' where id
SubmitUpdate(p) ==
  /\ pc[p] = "submit_update"
  /\ events' = [events EXCEPT ![req[p].eventId].status = "pending"]
  /\ Respond(p, "ok", 0, NoTicket)
  /\ UNCHANGED <<eventRegistrations, now, notifications>>

\* reviewEventSchema: status approved or rejected, rejectionReason an optional string
ReviewDecisions == {"approved", "rejected"}
ReviewReasons == {NoReason, "", "insufficient detail"}

\* POST /events/:id/review, controller lines 907-922: read the event, it must be
\* pending
ReviewGetEvent(p, eventId, adminId, status, rejectionReason) ==
  /\ CanStart(p)
  /\ LET r == [NoReq EXCEPT !.op = "review", !.eventId = eventId,
                            !.userId = adminId, !.seq = Len(log),
                            !.status = status, !.rejectionReason = rejectionReason]
     IN  IF events[eventId].status # "pending"
         THEN /\ log' = Append(log, Entry(r,
                    "Only pending events can be reviewed", 0, NoTicket))
              /\ UNCHANGED <<pc, req>>
         ELSE /\ pc' = [pc EXCEPT ![p] = "review_update"]
              /\ req' = [req EXCEPT ![p] = r]
              /\ UNCHANGED log
  /\ UNCHANGED <<events, eventRegistrations, now, local, notifications>>

\* reviewEvent, lines 149-170: the row after update ... set updateData where id;
\* a key of updateData that is undefined leaves its column as it is
Reviewed(event, adminId, status, rejectionReason, t) ==
  IF status = "approved"
  THEN [event EXCEPT !.status = status, !.approvedAt = t, !.approvedBy = adminId]
  ELSE IF rejectionReason = NoReason
  THEN [event EXCEPT !.status = status]
  ELSE [event EXCEPT !.status = status, !.rejectionReason = rejectionReason]

ReviewUpdate(p) ==
  /\ pc[p] = "review_update"
  /\ events' = [events EXCEPT ![req[p].eventId] =
                  Reviewed(@, req[p].userId, req[p].status, req[p].rejectionReason, now)]
  /\ Respond(p, "ok", 0, NoTicket)
  /\ UNCHANGED <<eventRegistrations, now, notifications>>

\* a draft that its organizer submits and the admin reviews
InitReview ==
  /\ events = [e \in EventIds |-> NewEvent(1, NULL, MaxTime + 1)]
  /\ eventRegistrations = <<>>
  /\ now = 1
  /\ pc = [p \in Procs |-> "idle"]
  /\ req = [p \in Procs |-> NoReq]
  /\ local = [p \in Procs |-> NoLocal]
  /\ log = <<>>
  /\ notifications = <<>>

NextReview ==
  \/ \E p \in Procs, e \in EventIds : SubmitGetEvent(p, e)
  \/ \E p \in Procs : SubmitUpdate(p)
  \/ \E p \in Procs, e \in EventIds, a \in AdminIds :
       \E d \in ReviewDecisions, r \in ReviewReasons : ReviewGetEvent(p, e, a, d, r)
  \/ \E p \in Procs : ReviewUpdate(p)

SpecReview == InitReview /\ [][NextReview]_vars

\* ------------------------------------------- registration and check-in, two events
ScanEventIds == {"e1", "e2"}

InitScan ==
  /\ events = [e \in ScanEventIds |-> ApprovedEvent(1, NULL, MaxTime + 1)]
  /\ eventRegistrations = <<>>
  /\ now = 1
  /\ pc = [p \in Procs |-> "idle"]
  /\ req = [p \in Procs |-> NoReq]
  /\ local = [p \in Procs |-> NoLocal]
  /\ log = <<>>
  /\ notifications = <<>>

NextScan ==
  \/ \E p \in Procs, e \in ScanEventIds, u \in UserIds : RegisterGetEvent(p, e, u)
  \/ \E p \in Procs : RegisterFindExisting(p)
  \/ \E p \in Procs, rnd \in Randoms : RegisterInsert(p, rnd)
  \/ \E p \in Procs : RegisterIncrement(p)
  \/ \E p \in Procs, e \in ScanEventIds, s \in StaffIds :
       \E t \in TicketInputs, q \in QrInputs : CheckInSelect(p, e, s, t, q)
  \/ \E p \in Procs : CheckInUpdate(p)

SpecScan == InitScan /\ [][NextScan]_vars

\* ---------------------------------- registration and cancellation, two events
NextTickets ==
  \/ \E p \in Procs, e \in ScanEventIds, u \in UserIds : RegisterGetEvent(p, e, u)
  \/ \E p \in Procs : RegisterFindExisting(p)
  \/ \E p \in Procs, rnd \in Randoms : RegisterInsert(p, rnd)
  \/ \E p \in Procs : RegisterIncrement(p)
  \/ \E p \in Procs, e \in ScanEventIds, u \in UserIds : CancelSelect(p, e, u)
  \/ \E p \in Procs : CancelUpdate(p)
  \/ \E p \in Procs : CancelDecrement(p)

SpecTickets == InitScan /\ [][NextTickets]_vars

\* -------------------------------------------------------------- updateEvent
\* updateEventSchema: maxParticipants absent (NULL here) or a positive integer;
\* the keys of the input that are left out keep their columns as they are
MaxParticipantsInputs == {NULL, 1, 2}

\* PATCH /events/:id, controller lines 811-830: read the event, check the owner
UpdateGetEvent(p, eventId, maxParticipants) ==
  /\ CanStart(p)
  /\ pc' = [pc EXCEPT ![p] = "update_set"]
  /\ req' = [req EXCEPT ![p] =
               [NoReq EXCEPT !.op = "update", !.eventId = eventId, !.userId = "org",
                             !.seq = Len(log), !.maxParticipants = maxParticipants]]
  /\ UNCHANGED <<events, eventRegistrations, now, local, log, notifications>>

\* updateEvent, lines 92-119: update ... set updateData where id
UpdateEvent(p) ==
  /\ pc[p] = "update_set"
  /\ events' = IF req[p].maxParticipants = NULL THEN events
               ELSE [events EXCEPT ![req[p].eventId].maxParticipants =
                                      req[p].maxParticipants]
  /\ Respond(p, "ok", 0, NoTicket)
  /\ UNCHANGED <<eventRegistrations, now, notifications>>

\* an approved event with or without a limit, its registrations, cancellations
\* and updates
CapacityChoices == {NULL, 1, 2}

InitCapacity ==
  /\ \E m \in CapacityChoices :
       events = [e \in EventIds |-> ApprovedEvent(m, NULL, MaxTime + 1)]
  /\ eventRegistrations = <<>>
  /\ now = 1
  /\ pc = [p \in Procs |-> "idle"]
  /\ req = [p \in Procs |-> NoReq]
  /\ local = [p \in Procs |-> NoLocal]
  /\ log = <<>>
  /\ notifications = <<>>

NextCapacity ==
  \/ \E p \in Procs, e \in EventIds, u \in UserIds : RegisterGetEvent(p, e, u)
  \/ \E p \in Procs : RegisterFindExisting(p)
  \/ \E p \in Procs, rnd \in Randoms : RegisterInsert(p, rnd)
  \/ \E p \in Procs : RegisterIncrement(p)
  \/ \E p \in Procs, e \in EventIds, u \in UserIds : CancelSelect(p, e, u)
  \/ \E p \in Procs : CancelUpdate(p)
  \/ \E p \in Procs : CancelDecrement(p)
  \/ \E p \in Procs, e \in EventIds, m \in MaxParticipantsInputs :
       UpdateGetEvent(p, e, m)
  \/ \E p \in Procs : UpdateEvent(p)

SpecCapacity == InitCapacity /\ [][NextCapacity]_vars

\* ------------------------------------------- the operations that write an event
\* submit, review and update of an event that starts as a draft
NextLifecycle ==
  \/ \E p \in Procs, e \in EventIds : SubmitGetEvent(p, e)
  \/ \E p \in Procs : SubmitUpdate(p)
  \/ \E p \in Procs, e \in EventIds, a \in AdminIds :
       \E d \in ReviewDecisions, r \in ReviewReasons : ReviewGetEvent(p, e, a, d, r)
  \/ \E p \in Procs : ReviewUpdate(p)
  \/ \E p \in Procs, e \in EventIds, m \in MaxParticipantsInputs :
       UpdateGetEvent(p, e, m)
  \/ \E p \in Procs : UpdateEvent(p)

SpecLifecycle == InitReview /\ [][NextLifecycle]_vars

\* Registration against the gate of registerForEvent: one event in any state
\* of the approval workflow before or after approval, with or without a
\* registration deadline, ending within or after the clock's range.
GateStatuses == {"draft", "pending", "approved"}
GateDeadlines == {NULL, 1}
GateEndDates == {MaxTime, MaxTime + 1}

InitGate ==
  /\ \E st \in GateStatuses, dl \in GateDeadlines, ed \in GateEndDates :
       events = [e \in EventIds |->
                   IF st = "approved" THEN ApprovedEvent(1, dl, ed)
                   ELSE [NewEvent(1, dl, ed) EXCEPT !.status = st]]
  /\ eventRegistrations = <<>>
  /\ now = 1
  /\ pc = [p \in Procs |-> "idle"]
  /\ req = [p \in Procs |-> NoReq]
  /\ local = [p \in Procs |-> NoLocal]
  /\ log = <<>>
  /\ notifications = <<>>

NextGate ==
  \/ Tick
  \/ \E p \in Procs, e \in EventIds, u \in UserIds : RegisterGetEvent(p, e, u)
  \/ \E p \in Procs : RegisterFindExisting(p)
  \/ \E p \in Procs, rnd \in Randoms : RegisterInsert(p, rnd)
  \/ \E p \in Procs : RegisterIncrement(p)

SpecGate == InitGate /\ [][NextGate]_vars

\* ------------------------------------------------------------ notifications
\* values of the notification_type enum an admin sends here
NotificationTypes == {"registration_confirmed", "event_update"}

\* createNotification, lines 12-23: the row it inserts; data is {eventId, ticketNumber}
NewNotification(userId, type, eventId, ticketNumber) ==
  [userId |-> userId, type |-> type, eventId |-> eventId,
   ticketNumber |-> ticketNumber]

\* sendRegistrationConfirmation, lines 209-222: the notification it creates
sendRegistrationConfirmation(userId, eventId, ticketNumber) ==
  NewNotification(userId, "registration_confirmed", eventId, ticketNumber)

\* POST /notifications (admin only), controller lines 122-136: one insert
CreateNotification(p, userId, type, eventId, ticketNumber) ==
  /\ CanStart(p)
  /\ notifications' = Append(notifications,
                             NewNotification(userId, type, eventId, ticketNumber))
  /\ log' = Append(log, Entry([NoReq EXCEPT !.op = "notify", !.eventId = eventId,
                                            !.userId = userId, !.seq = Len(log)],
                              "ok", 0, ticketNumber))
  /\ UNCHANGED <<events, eventRegistrations, now, pc, req, local>>

\* registrations, and notifications the admin sends by hand
NextNotify ==
  \/ \E p \in Procs, e \in EventIds, u \in UserIds : RegisterGetEvent(p, e, u)
  \/ \E p \in Procs : RegisterFindExisting(p)
  \/ \E p \in Procs, rnd \in Randoms : RegisterInsert(p, rnd)
  \/ \E p \in Procs : RegisterIncrement(p)
  \/ \E p \in Procs, u \in UserIds, ty \in NotificationTypes, e \in EventIds :
       \E t \in TicketInputs \ {NoTicket} : CreateNotification(p, u, ty, e, t)

SpecNotify == Init /\ [][NextNotify]_vars

TypeOK ==
  /\ \A e \in EventIds : events[e].status \in EventStatus
  /\ \A i \in RegIds : eventRegistrations[i].status \in RegistrationStatus
  /\ now \in Times

\* ------------------------------------------------------------------ claims
Quiescent == \A p \in Procs : pc[p] = "idle"
LogIds == 1..Len(log)
Succeeded(k, op) == log[k].op = op /\ log[k].result = "ok"
\* rows of an event that hold a seat
ActiveRegistrations(e) ==
  {i \in RegIds : /\ eventRegistrations[i].eventId = e
                  /\ eventRegistrations[i].status \in {"confirmed", "attended"}}

\* C1: an event with maxParticipants set never has more participants than
\* that, whatever the interleaving of registrations and cancellations.
C1_CapacityNeverExceeded ==
  \A e \in EventIds :
    events[e].maxParticipants # NULL
      => events[e].currentParticipants <= events[e].maxParticipants

\* C2: when N + K users (K > 0) register for an empty event of capacity N and
\* all requests have been answered, exactly N got a registration and exactly K
\* were refused as full.  (Stated for runs without a ticket collision.)
C2_ExactlyNConfirmed ==
  \A e \in EventIds :
    LET N == events[e].maxParticipants IN
    ( /\ Quiescent
      /\ N # NULL
      /\ Len(log) > N
      /\ \A k \in LogIds : /\ log[k].op = "register"
                           /\ log[k].eventId = e
                           /\ log[k].result # "duplicate key"
      /\ \A j, k \in LogIds : log[j].userId = log[k].userId => j = k )
    => /\ Cardinality({k \in LogIds : log[k].result = "ok"}) = N
       /\ Cardinality({k \in LogIds : log[k].result = "Event is full"}) = Len(log) - N

\* C3: there is never more than one registration row for an (event, user) pair.
C3_OneRegistrationPerPair ==
  \A i, j \in RegIds :
    ( /\ eventRegistrations[i].eventId = eventRegistrations[j].eventId
      /\ eventRegistrations[i].userId = eventRegistrations[j].userId ) => i = j

\* C4: of the check-in requests for one registration at most one succeeds, so
\* the row is moved to attended, and checkedInAt/checkedInBy written, once.
C4_SingleCheckIn ==
  \A j, k \in LogIds :
    ( /\ Succeeded(j, "checkIn") /\ Succeeded(k, "checkIn")
      /\ log[j].regId = log[k].regId ) => j = k

\* C5: once every registration and cancellation request has been answered,
\* currentParticipants is the number of confirmed or attended rows of the event.
C5_Reconciled ==
  ( /\ Quiescent
    /\ \A k \in LogIds : log[k].op \in {"register", "cancel"} )
  => \A e \in EventIds :
       events[e].currentParticipants = Cardinality(ActiveRegistrations(e))

\* C6: at most one cancellation request succeeds (and decrements the counter)
\* for any one registration.
C6_DecrementOnce ==
  \A j, k \in LogIds :
    ( /\ Succeeded(j, "cancel") /\ Succeeded(k, "cancel")
      /\ log[j].regId = log[k].regId ) => j = k

\* C7: currentParticipants is never negative.
C7_NonNegative ==
  \A e \in EventIds : events[e].currentParticipants >= 0

\* C8: a user who registered, cancelled and then registers again, one request
\* after the other, gets a confirmed registration with a new ticket number.
C8_ReRegisterSucceeds ==
  \A e \in EventIds, u \in UserIds :
    ( /\ Len(log) >= 3
      /\ Succeeded(1, "register") /\ log[1].eventId = e /\ log[1].userId = u
      /\ Succeeded(2, "cancel") /\ log[2].eventId = e /\ log[2].userId = u
      /\ log[2].seq = 1 /\ log[2].regId = log[1].regId
      /\ log[3].op = "register" /\ log[3].eventId = e /\ log[3].userId = u
      /\ log[3].seq = 2 )
    => /\ log[3].result = "ok"
       /\ log[3].ticketNumber # log[1].ticketNumber

\* C9: on an event of capacity 1, requests served one after the other: A
\* registers; B is refused as full; A cancels and the counter is 0 again; B
\* registers and gets a confirmed registration with a ticket other than A's.
C9_CancelFreesSlot ==
  \A e \in EventIds, a \in UserIds, b \in UserIds :
    LET step1 == /\ a # b
                 /\ events[e].maxParticipants = 1
                 /\ Len(log) >= 1
                 /\ Succeeded(1, "register")
                 /\ log[1].eventId = e /\ log[1].userId = a
        step2 == /\ step1 /\ Len(log) >= 2
                 /\ log[2].op = "register" /\ log[2].eventId = e
                 /\ log[2].userId = b /\ log[2].seq = 1
        step3 == /\ step2 /\ Len(log) >= 3
                 /\ Succeeded(3, "cancel") /\ log[3].eventId = e
                 /\ log[3].userId = a /\ log[3].seq = 2
        step4 == /\ step3 /\ Len(log) >= 4
                 /\ log[4].op = "register" /\ log[4].eventId = e
                 /\ log[4].userId = b /\ log[4].seq = 3
    IN  /\ step2 => log[2].result = "Event is full"
        /\ (step3 /\ Len(log) = 3 /\ Quiescent) => events[e].currentParticipants = 0
        /\ step4 => /\ log[4].result = "ok"
                    /\ log[4].ticketNumber # log[1].ticketNumber

\* C10: a registration that is cancelled stays cancelled, whatever runs next.
C10_CancelledTerminal ==
  [][\A i \in RegIds :
       eventRegistrations[i].status = "cancelled"
         => eventRegistrations'[i].status = "cancelled"]_vars

\* C11: a registration that is attended stays attended; in particular a
\* cancellation by the registrant does not move it to cancelled.
C11_AttendedTerminal ==
  [][\A i \in RegIds :
       eventRegistrations[i].status = "attended"
         => eventRegistrations'[i].status = "attended"]_vars

\* C12: whenever a check-in applies its attended write, the stored row is
\* confirmed and has no checkedInAt at that moment.
C12_AttendedOnlyFromConfirmed ==
  [][\A p \in Procs :
       (pc[p] = "checkin_update" /\ pc'[p] = "idle")
         => /\ eventRegistrations[local[p].regId].status = "confirmed"
            /\ eventRegistrations[local[p].regId].checkedInAt = NULL]_vars

\* C19: a registration request that fails or stops after the capacity check
\* leaves the counter equal to the number of confirmed or attended rows.
\* (Stated for behaviours in which only registration requests ran.)
C19_NoLeakOnFailedRegistration ==
  ( /\ Quiescent
    /\ \A k \in LogIds : log[k].op = "register" )
  => \A e \in DOMAIN events :
       events[e].currentParticipants = Cardinality(ActiveRegistrations(e))

\* C20: a cancellation that stops between its two writes does not leave a
\* cancelled registration counted.  (Stated for requests served one after the
\* other, none of the registrations stopped, so that only a cancellation
\* stopping half-way can separate the counter from the rows.)
C20_CancelAllOrNothing ==
  ( /\ Quiescent
    /\ \A k \in LogIds : /\ log[k].op \in {"register", "cancel"}
                         /\ log[k].seq = k - 1
                         /\ log[k].op = "register" => log[k].result # "aborted" )
  => \A e \in DOMAIN events :
       events[e].currentParticipants = Cardinality(ActiveRegistrations(e))

\* C13: a registration row is created only by a request that arrived while
\* the event was approved, not past its registration deadline and before its
\* endDate.
C13_CreatedOnlyWhileOpen ==
  \A p \in Procs :
    pc[p] = "reg_increment"
      => /\ events[req[p].eventId].status = "approved"
         /\ ~req[p].pastDeadline
         /\ ~req[p].pastEnd

\* the responses of the kind EventNotOpenForRegistration
EventNotOpenForRegistration ==
  {"Event is not open for registration", "Registration deadline has passed"}

\* C14: a registration request for an event that is not approved, or whose
\* registration deadline is in the past, is refused as not open for
\* registration at once; no row is created and no counter changes.
C14_NotOpenRefused ==
  [][\A e \in DOMAIN events :
       ( \/ events[e].status # "approved"
         \/ /\ events[e].registrationDeadline # NULL
            /\ now > events[e].registrationDeadline )
       => /\ \A p \in Procs :
               ~(pc[p] = "idle" /\ pc'[p] = "reg_findExisting" /\ req'[p].eventId = e)
          /\ ( /\ pc' = pc
               /\ Len(log') = Len(log) + 1
               /\ log'[Len(log')].op = "register"
               /\ log'[Len(log')].eventId = e )
             => /\ log'[Len(log')].result \in EventNotOpenForRegistration
                /\ log'[Len(log')].regId = 0
                /\ eventRegistrations' = eventRegistrations
                /\ events' = events]_vars

\* C14 witness: a user registered before the deadline, a later request was
\* refused because the deadline had passed
C14_Witness ==
  \E j, k \in LogIds :
    /\ Succeeded(j, "register")
    /\ log[k].op = "register" /\ log[k].pastDeadline
    /\ log[k].result = "Registration deadline has passed"
    /\ Len(eventRegistrations) = 1

\* C15: submit and review change an event's status only from draft to
\* pending and from pending to approved or rejected, and each of them writes
\* only while the event is still in the state it requires.
LegalStatusChanges ==
  {<<"draft", "pending">>, <<"pending", "approved">>, <<"pending", "rejected">>}

C15_LegalTransitionsOnly ==
  [][/\ \A e \in DOMAIN events :
          events'[e].status # events[e].status
            => <<events[e].status, events'[e].status>> \in LegalStatusChanges
     /\ \A p \in Procs :
          /\ (pc[p] = "submit_update" /\ pc'[p] = "idle")
               => events[req[p].eventId].status = "draft"
          /\ (pc[p] = "review_update" /\ pc'[p] = "idle")
               => events[req[p].eventId].status = "pending"]_vars

\* C16: a rejected event has a rejection reason that is not empty.
C16_RejectedHasReason ==
  \A e \in DOMAIN events :
    events[e].status = "rejected" => events[e].rejectionReason \notin {NoReason, ""}

\* C17: a check-in request with neither ticket number nor QR code is answered
\* with the missing-identifier error and never reaches the attended write.
C17_MissingIdentifierRefused ==
  /\ \A k \in LogIds :
       (log[k].op = "checkIn" /\ log[k].owner = "absent")
         => /\ log[k].result = "Either ticket number or QR code is required"
            /\ log[k].regId = 0
  /\ \A p \in Procs : pc[p] = "checkin_update" => req[p].owner # "absent"

\* C17 witness: such a request was refused for an event that has a confirmed
\* registration, and no registration has been checked in
C17_Witness ==
  \E k \in LogIds :
    /\ log[k].op = "checkIn" /\ log[k].owner = "absent"
    /\ \E i \in RegIds : eventRegistrations[i].eventId = log[k].eventId
    /\ \A i \in RegIds : /\ eventRegistrations[i].status = "confirmed"
                         /\ eventRegistrations[i].checkedInAt = NULL

\* C18: a check-in only ever selects, and writes, a registration of the event
\* it was sent for; a ticket number or QR code of another event's registration
\* is answered with registration-not-found.
C18_CheckInScopedToEvent ==
  /\ \A p \in Procs :
       pc[p] = "checkin_update"
         => eventRegistrations[local[p].regId].eventId = req[p].eventId
  /\ \A k \in LogIds :
       Succeeded(k, "checkIn")
         => eventRegistrations[log[k].regId].eventId = log[k].eventId
  /\ \A k \in LogIds :
       ( /\ log[k].op = "checkIn"
         /\ log[k].owner \in DOMAIN events
         /\ log[k].owner # log[k].eventId )
       => /\ log[k].result = "Registration not found"
          /\ log[k].regId = 0

\* C18 witness: the identifier of a registration of one event was presented
\* for the other event, and that registration is still confirmed
C18_Witness ==
  \E k \in LogIds :
    /\ log[k].op = "checkIn"
    /\ log[k].owner \in DOMAIN events
    /\ log[k].owner # log[k].eventId
    /\ \E i \in RegIds : /\ eventRegistrations[i].eventId = log[k].owner
                         /\ eventRegistrations[i].status = "confirmed"
                         /\ eventRegistrations[i].checkedInAt = NULL
    /\ \A i \in RegIds : eventRegistrations[i].status = "confirmed"

\* C24: every successful registration is followed by exactly one 'registration
\* confirmed' notification for its user with the event id and the ticket
\* number issued, and a failed registration by none.  (Stated for behaviours
\* in which only registration requests ran, once all of them are answered.)
C24_ConfirmationEmitted ==
  ( /\ Quiescent
    /\ \A k \in LogIds : log[k].op = "register" )
  => /\ \A k \in LogIds :
          Succeeded(k, "register")
            => Cardinality({n \in 1..Len(notifications) :
                  notifications[n] = sendRegistrationConfirmation(
                     log[k].userId, log[k].eventId, log[k].ticketNumber)}) = 1
     /\ Len(notifications) = Cardinality({k \in LogIds : Succeeded(k, "register")})

\* C21: no two registration rows, whatever their status or event, share a
\* ticket number or a QR code; an insert whose generated value exists already
\* is answered with a duplicate-key error, adds no row and changes no row's
\* ticket number or QR code.
C21_TicketsUnique ==
  /\ [](\A i, j \in RegIds :
          ( \/ eventRegistrations[i].ticketNumber = eventRegistrations[j].ticketNumber
            \/ eventRegistrations[i].qrCode = eventRegistrations[j].qrCode ) => i = j)
  /\ [][/\ \A i \in RegIds :
             /\ i <= Len(eventRegistrations')
             /\ eventRegistrations'[i].ticketNumber = eventRegistrations[i].ticketNumber
             /\ eventRegistrations'[i].qrCode = eventRegistrations[i].qrCode
        /\ \A p \in Procs :
             (pc[p] = "reg_insert" /\ pc'[p] = "idle")
               => /\ log'[Len(log')].result = "duplicate key"
                  /\ log'[Len(log')].regId = 0
                  /\ eventRegistrations' = eventRegistrations]_vars

\* C21 witness: a registration of one event was cancelled, and a later
\* registration for the other event drew its ticket number and was refused
C21_Witness ==
  \E c, k \in LogIds :
    /\ Succeeded(c, "cancel") /\ log[k].seq >= c
    /\ log[k].op = "register" /\ log[k].result = "duplicate key"
    /\ Len(eventRegistrations) = 1
    /\ eventRegistrations[1].status = "cancelled"
    /\ eventRegistrations[1].eventId # log[k].eventId

\* C22: a registration request for an event whose maxParticipants is unset is
\* never answered with the event-full error, whatever the counter holds and
\* however many users have registered.
C22_UnboundedNeverFull ==
  [][\A e \in DOMAIN events :
       events[e].maxParticipants = NULL
         => ~( /\ Len(log') = Len(log) + 1
               /\ log'[Len(log')].op = "register"
               /\ log'[Len(log')].eventId = e
               /\ log'[Len(log')].result = "Event is full" )]_vars

\* C22 witness: with maxParticipants unset, a user registered after another
\* user's registration had been answered, and the counter is 2
C22_Witness ==
  \E e \in DOMAIN events, j, k \in LogIds :
    /\ events[e].maxParticipants = NULL
    /\ events[e].currentParticipants = 2
    /\ Succeeded(j, "register") /\ Succeeded(k, "register")
    /\ log[j].eventId = e /\ log[k].eventId = e
    /\ log[j].userId # log[k].userId
    /\ log[k].seq >= j

\* C27: after any sequence of registrations, cancellations and event updates,
\* served one after the other, an event with maxParticipants set has
\* currentParticipants <= maxParticipants.
C27_CapacityPreservedByUpdate ==
  ( /\ Quiescent
    /\ \A k \in LogIds : log[k].seq = k - 1 )
  => \A e \in DOMAIN events :
       events[e].maxParticipants # NULL
         => events[e].currentParticipants <= events[e].maxParticipants

\* C23: an insert that collides on the ticket number or the QR code is retried
\* with a newly issued ticket; the duplicate-key failure reaches the caller
\* only after the bound of attempts is used up.  A request enters reg_insert
\* from its existence check only, so the insert it runs there is its first
\* attempt, and the claim has that attempt followed by another one.
C23_RetryOnCollision ==
  [][\A p \in Procs :
       pc[p] = "reg_insert"
         => ~( /\ pc'[p] = "idle"
               /\ log'[Len(log')].op = "register"
               /\ log'[Len(log')].result = "duplicate key" )]_vars

\* the statuses of an event that are final, and the others
TerminalStatuses == {"cancelled", "completed"}
NonTerminalStatuses == EventStatus \ TerminalStatuses

\* C25: while an event is draft, pending, approved or rejected and a
\* connection is free to take a request, a step that moves the event to
\* cancelled is possible; an event that is cancelled or completed keeps its
\* status for good.
C25_CancellableUntilTerminal ==
  /\ [](\A e \in DOMAIN events :
          (events[e].status \in NonTerminalStatuses /\ \E p \in Procs : CanStart(p))
            => ENABLED (NextLifecycle /\ events'[e].status = "cancelled"))
  /\ [][\A e \in DOMAIN events :
          events[e].status \in TerminalStatuses
            => events'[e].status = events[e].status]_vars

\* C26: a check-in, refused or not, changes no event (so neither
\* currentParticipants nor maxParticipants) and no registration other than the
\* one it matched; it adds and removes no registration.
C26_CheckInFrame ==
  [][\A p \in Procs :
       LET accepted == pc[p] = "idle" /\ pc'[p] = "checkin_update"
           refused == /\ pc' = pc
                      /\ Len(log') = Len(log) + 1
                      /\ log'[Len(log')].op = "checkIn"
           written == pc[p] = "checkin_update" /\ pc'[p] = "idle"
       IN  /\ (accepted \/ refused)
             => events' = events /\ eventRegistrations' = eventRegistrations
           /\ written
             => /\ events' = events
                /\ Len(eventRegistrations') = Len(eventRegistrations)
                /\ \A i \in RegIds \ {local[p].regId} :
                     eventRegistrations'[i] = eventRegistrations[i]]_vars

\* C26 witness: one check-in succeeded and one was refused while the event
\* held a second registration, which is still confirmed and not checked in
C26_Witness ==
  \E j, k \in LogIds :
    /\ Succeeded(k, "checkIn")
    /\ log[j].op = "checkIn" /\ log[j].result # "ok"
    /\ eventRegistrations[log[k].regId].status = "attended"
    /\ \E i \in RegIds \ {log[k].regId} :
         /\ eventRegistrations[i].eventId = log[k].eventId
         /\ eventRegistrations[i].status = "confirmed"
         /\ eventRegistrations[i].checkedInAt = NULL

\* C28: a registration row is created in status confirmed, and no row is ever
\* pending: the statuses rows hold are confirmed, attended and cancelled.
C28_NeverPending ==
  /\ [](\A i \in RegIds :
          eventRegistrations[i].status \in {"confirmed", "attended", "cancelled"})
  /\ [][Len(eventRegistrations') # Len(eventRegistrations)
          => /\ Len(eventRegistrations') = Len(eventRegistrations) + 1
             /\ eventRegistrations'[Len(eventRegistrations')].status = "confirmed"]_vars

\* C28 witness: one registration has been cancelled and another checked in
C28_Witness ==
  \E i, j \in RegIds :
    /\ eventRegistrations[i].status = "cancelled"
    /\ eventRegistrations[i].checkedInAt = NULL
    /\ eventRegistrations[j].status = "attended"

\* C29: a registration has checkedInAt and checkedInBy set exactly when its
\* status is attended.
C29_CheckedInIffAttended ==
  \A i \in RegIds :
    ( /\ eventRegistrations[i].checkedInAt # NULL
      /\ eventRegistrations[i].checkedInBy # NoUser )
    <=> eventRegistrations[i].status = "attended"

\* C30: an event has approvedAt or approvedBy set only if its status is
\* approved, and a rejection reason only if its status is rejected, whatever
\* the interleaving of submit and review requests.
C30_ReviewFieldsMatchStatus ==
  \A e \in DOMAIN events :
    /\ (events[e].approvedAt # NULL \/ events[e].approvedBy # NoUser)
         => events[e].status = "approved"
    /\ events[e].rejectionReason # NoReason => events[e].status = "rejected"

====
